---- MODULE Spec2Model ----
(***************************************************************************)
(* MsQueue (src/src/queue/ms_queue.rs): a Michael-Scott queue with a       *)
(* sentinel node, whose non-sentinel nodes are either Data nodes or        *)
(* Blocked nodes (requests of parked consumers).                           *)
(*                                                                         *)
(* One step of the model is one access to shared memory (a load, a store   *)
(* or a compare_and_set of `head`, `tail`, a node's `next`, a waiter's     *)
(* fields) together with the thread-local code that follows it.  Memory    *)
(* is sequentially consistent.  Nodes live at addresses 1..MaxNodes; a     *)
(* node passed to defer_destroy is destroyed once every guard that was     *)
(* pinned at that moment has been dropped, and the allocator may hand a    *)
(* destroyed address out again.  A load from a destroyed node (a use       *)
(* after free) yields either what the node last held or an empty value:    *)
(* either payload kind, the last `next` or null.                           *)
(***************************************************************************)
EXTENDS Integers, Naturals, Sequences, FiniteSets, TLC

MaxThreads == 3
MaxNodes == 6

Threads == 1..MaxThreads
Nodes == 1..MaxNodes
Null == 0

VARIABLES
    head, tail,          \* MsQueue.head, MsQueue.tail
    next, payload,       \* Node.next, Node.payload of every address
    mem, guards,         \* allocation state of every address; guards awaited by a retired node
    pc,                  \* each thread's position
    tailS, headS, nextS, \* each thread's tail_shared / onto, head_shared, next_shared
    node,                \* push: the cached node; pop: the Blocked node still owned
    sig,                 \* push: the waiter taken from the Blocked node
    sigData, sigReady,   \* Signal.data, Signal.ready of each thread's waiter
    token,               \* the park token of each thread
    res,                 \* results of the calls each thread has completed
    deq,                 \* values in the order they were dequeued (head CAS)
    plan,                \* the calls each thread makes, in order
    emptySeen,           \* history: the call of t loaded `head` when no Data node followed it
    clean,               \* history: no consumer call has overlapped the push call of t
    cleanPushed,         \* history: values of completed pushes that no consumer call overlapped
    solo,                \* history: the try_pop of t began with a clean value undequeued
                         \*   and no other consumer call has been in progress since
    late,                \* history: a push call has returned since the pop of t parked
    links,               \* history: the pop calls <<thread, call>> in the order they linked a Blocked node
    served,              \* history: the pop calls <<thread, call>> in the order a push dequeued their node
    allocs,              \* history: the nodes the call of t has allocated so far
    owner                \* history: the call of the pop that made the Blocked node at an address

vars == <<head, tail, next, payload, mem, guards, pc, tailS, headS, nextS, node,
          sig, sigData, sigReady, token, res, deq, plan,
          emptySeen, clean, cleanPushed, solo, late, links, served, allocs, owner>>

----------------------------------------------------------------------------
(* Payloads and results *)

Data(v) == [kind |-> "Data", val |-> v]
Blocked(t) == [kind |-> "Blocked", val |-> t]
is_data(n) == payload[n].kind = "Data"

\* what a load of node n's payload kind / of node n's `next` can yield
KindsAt(n) == IF mem[n] = "free" THEN {"Data", "Blocked"} ELSE {payload[n].kind}
NextsAt(n) == IF mem[n] = "free" THEN {next[n], Null} ELSE {next[n]}
\* the kind of the node a loaded `next` refers to, "null" for a null pointer
KindsOf(nx) == IF nx = Null THEN {"null"} ELSE KindsAt(nx)

Unit == [k |-> "Unit", v |-> 0]
None == [k |-> "None", v |-> 0]
Some(v) == [k |-> "Some", v |-> v]
Bool(b) == [k |-> "Bool", v |-> IF b THEN 1 ELSE 0]

\* the call thread t is in (or will make next)
CallNo(t) == Len(res[t]) + 1
Op(t) == IF CallNo(t) <= Len(plan[t]) THEN plan[t][CallNo(t)] ELSE "none"
\* the value the k-th call of thread t pushes: distinct for distinct calls
Val(t, k) == 10 * t + k
Item(t) == Val(t, CallNo(t))
Producer(v) == v \div 10

----------------------------------------------------------------------------
(* Epoch guards and the allocator *)

\* a thread holds its guard from epoch::pin() to the guard's drop
Pinned(t) == pc[t] \notin {"idle", "wa_check", "wa_park"}

\* guard.defer_destroy(n) by a pinned thread: n waits for every guard pinned now
DeferDestroy(m, g, n) ==
    <<[m EXCEPT ![n] = "retired"], [g EXCEPT ![n] = {u \in Threads : Pinned(u)}]>>

\* the pop call of thread t has linked its Blocked node and waits for its waiter
Parked(t) == pc[t] \in {"wa_check", "wa_park"}

\* drop(guard) of thread t: retired nodes waiting for no other guard are destroyed
DropGuard(m, g, t) ==
    <<[n \in Nodes |-> IF m[n] = "retired" /\ g[n] \subseteq {t} THEN "free" ELSE m[n]],
      [n \in Nodes |-> g[n] \ {t}]>>

\* drop of an Owned node (never handed to the queue by its owner)
DropOwned(m, n) == IF n = Null THEN m ELSE [m EXCEPT ![n] = "free"]

Fresh == {n \in Nodes : mem[n] = "fresh"}
\* Owned::new: a destroyed address, or the lowest address never used
AllocSet ==
    {n \in Nodes : mem[n] = "free"} \cup
    {n \in Fresh : \A m \in Fresh : n <= m}

----------------------------------------------------------------------------
(* Initial state: MsQueue::new() *)

Plan(p) == [t \in Threads |-> IF t <= Len(p) THEN p[t] ELSE <<>>]

InitQueue ==
    /\ head = 1
    /\ tail = 1
    /\ next = [n \in Nodes |-> Null]
    /\ payload = [n \in Nodes |-> Data(0)]
    /\ mem = [n \in Nodes |-> IF n = 1 THEN "live" ELSE "fresh"]
    /\ guards = [n \in Nodes |-> {}]
    /\ pc = [t \in Threads |-> "idle"]
    /\ tailS = [t \in Threads |-> Null]
    /\ headS = [t \in Threads |-> Null]
    /\ nextS = [t \in Threads |-> Null]
    /\ node = [t \in Threads |-> Null]
    /\ sig = [t \in Threads |-> Null]
    /\ sigData = [t \in Threads |-> 0]
    /\ sigReady = [t \in Threads |-> FALSE]
    /\ token = [t \in Threads |-> FALSE]
    /\ res = [t \in Threads |-> <<>>]
    /\ deq = <<>>
    /\ emptySeen = [t \in Threads |-> FALSE]
    /\ clean = [t \in Threads |-> FALSE]
    /\ cleanPushed = {}
    /\ solo = [t \in Threads |-> FALSE]
    /\ late = [t \in Threads |-> FALSE]
    /\ links = <<>>
    /\ served = <<>>
    /\ allocs = [t \in Threads |-> 0]
    /\ owner = [n \in Nodes |-> 0]

----------------------------------------------------------------------------
(* Leaving a call *)

\* the call of thread t returns r; its guard is dropped with memory state <<m, g>>
Return(t, r, mg) ==
    /\ res' = [res EXCEPT ![t] = Append(@, r)]
    /\ pc' = [pc EXCEPT ![t] = "idle"]
    /\ mem' = DropGuard(mg[1], mg[2], t)[1]
    /\ guards' = DropGuard(mg[1], mg[2], t)[2]
    /\ tailS' = [tailS EXCEPT ![t] = Null]
    /\ headS' = [headS EXCEPT ![t] = Null]
    /\ nextS' = [nextS EXCEPT ![t] = Null]
    /\ node' = [node EXCEPT ![t] = Null]
    /\ sig' = [sig EXCEPT ![t] = Null]
    /\ cleanPushed' = IF Op(t) = "push" /\ clean[t]
                      THEN cleanPushed \cup {Item(t)} ELSE cleanPushed
    /\ late' = IF Op(t) = "push" THEN [u \in Threads |-> late[u] \/ Parked(u)] ELSE late

\* where the caller of pop_internal / push_internal goes on an unsuccessful attempt
PushRetry == "pu_tail"
PopRetry == "pi_head"

----------------------------------------------------------------------------
(* A thread begins its next call: epoch::pin() *)

IsConsumer(op) == op \in {"try_pop", "pop"}
\* some try_pop or pop call is in progress (running or parked)
ConsumerActive == \E u \in Threads : pc[u] # "idle" /\ IsConsumer(Op(u))

Invoke(t) ==
    /\ pc[t] = "idle"
    /\ Op(t) # "none"
    /\ pc' = [pc EXCEPT ![t] =
                CASE Op(t) = "push" -> "pu_tail"
                  [] Op(t) = "is_empty" -> "ie_head"
                  [] OTHER -> "pi_head"]
    /\ emptySeen' = [emptySeen EXCEPT ![t] = FALSE]
    /\ clean' = IF IsConsumer(Op(t)) THEN [u \in Threads |-> FALSE]
                ELSE [clean EXCEPT ![t] = Op(t) = "push" /\ ~ConsumerActive]
    /\ solo' = IF IsConsumer(Op(t))
               THEN [u \in Threads |->
                       /\ u = t
                       /\ Op(t) = "try_pop"
                       /\ ~ConsumerActive
                       /\ cleanPushed \ {deq[i] : i \in 1..Len(deq)} # {}]
               ELSE solo
    /\ UNCHANGED <<head, tail, next, payload, mem, guards, tailS, headS, nextS, node,
                   sig, sigData, sigReady, token, res, deq, plan, cleanPushed, late>>
    /\ allocs' = [allocs EXCEPT ![t] = 0]
    /\ UNCHANGED <<links, served, owner>>

----------------------------------------------------------------------------
(* is_empty *)

IsEmptyLoadHead(t) ==
    /\ pc[t] = "ie_head"
    /\ headS' = [headS EXCEPT ![t] = head]
    /\ pc' = [pc EXCEPT ![t] = "ie_next"]
    /\ UNCHANGED <<head, tail, next, payload, mem, guards, tailS, nextS, node,
                   sig, sigData, sigReady, token, res, deq, plan>>
    /\ UNCHANGED <<emptySeen, clean, solo, cleanPushed, late>>
    /\ UNCHANGED <<links, served, allocs, owner>>

\* a faulty variant: a Blocked node counts as an element
IsEmptyAnswerNullOnly(nx, k) == nx = Null

\* what is_empty answers when head.next is nx, a node of kind k
IsEmptyAnswer(nx, k) == nx = Null \/ k # "Data"

IsEmptyLoadNext(t) ==
    /\ pc[t] = "ie_next"
    /\ \E nx \in NextsAt(headS[t]) : \E k \in KindsOf(nx) :
          Return(t, Bool(IsEmptyAnswer(nx, k)), <<mem, guards>>)
    /\ UNCHANGED <<head, tail, next, payload, sigData, sigReady, token, deq, plan>>
    /\ UNCHANGED <<emptySeen, clean, solo>>
    /\ UNCHANGED <<links, served, allocs, owner>>

----------------------------------------------------------------------------
(* pop_internal, with what try_pop and pop do with its result *)

\* no Data node follows the sentinel: head.next is null or a Blocked node
NoDataAfterSentinel == next[head] = Null \/ payload[next[head]].kind = "Blocked"

PopLoadHead(t) ==
    /\ pc[t] = "pi_head"
    /\ headS' = [headS EXCEPT ![t] = head]
    /\ pc' = [pc EXCEPT ![t] = "pi_next"]
    /\ emptySeen' = [emptySeen EXCEPT ![t] = @ \/ NoDataAfterSentinel]
    /\ UNCHANGED <<head, tail, next, payload, mem, guards, tailS, nextS, node,
                   sig, sigData, sigReady, token, res, deq, plan, clean, cleanPushed, solo, late>>
    /\ UNCHANGED <<links, served, allocs, owner>>

\* a faulty variant: the match on the payload is inverted
SeesDataOrBlocked(nx, k) == nx # Null /\ k # "Data"

\* pop_internal goes on to its CAS: head.next is nx, a Data node
SeesData(nx, k) == nx # Null /\ k = "Data"

PopLoadNext(t) ==
    /\ pc[t] = "pi_next"
    /\ \E nx \in NextsAt(headS[t]) : \E k \in KindsOf(nx) :
       IF SeesData(nx, k)
       THEN /\ nextS' = [nextS EXCEPT ![t] = nx]
            /\ pc' = [pc EXCEPT ![t] = "pi_cas"]
            /\ UNCHANGED <<head, tail, next, payload, mem, guards, tailS, headS, node,
                           sig, sigData, sigReady, token, res, deq, plan, cleanPushed, late,
                           allocs, owner>>
       ELSE \* Ok(None)
            CASE Op(t) = "try_pop" ->
                   /\ Return(t, None, <<mem, guards>>)
                   /\ UNCHANGED <<head, tail, next, payload, sigData, sigReady, token,
                                  deq, plan, allocs, owner>>
              [] Op(t) = "pop" /\ node[t] = Null ->
                   \* leave the fast path: the waiter and its Blocked node
                   \E a \in AllocSet :
                      /\ node' = [node EXCEPT ![t] = a]
                      /\ payload' = [payload EXCEPT ![a] = Blocked(t)]
                      /\ next' = [next EXCEPT ![a] = Null]
                      /\ mem' = [mem EXCEPT ![a] = "live"]
                      /\ allocs' = [allocs EXCEPT ![t] = @ + 1]
                      /\ owner' = [owner EXCEPT ![a] = CallNo(t)]
                      /\ sigData' = [sigData EXCEPT ![t] = 0]
                      /\ sigReady' = [sigReady EXCEPT ![t] = FALSE]
                      /\ pc' = [pc EXCEPT ![t] = "pi_head"]
                      /\ UNCHANGED <<head, tail, guards, tailS, headS, nextS, sig,
                                     token, res, deq, plan, cleanPushed, late>>
              [] OTHER ->
                   /\ pc' = [pc EXCEPT ![t] = "po_tail"]
                   /\ UNCHANGED <<head, tail, next, payload, mem, guards, tailS, headS,
                                  nextS, node, sig, sigData, sigReady, token, res, deq,
                                  plan, cleanPushed, late, allocs, owner>>
    /\ UNCHANGED <<emptySeen, clean, solo>>
    /\ UNCHANGED <<links, served>>

\* a faulty variant: head is stored without being compared
HeadCasBlind(hs) == TRUE

\* self.head.compare_and_set(head_shared, next_shared) succeeds
HeadCasOk(hs) == head = hs

\* a faulty variant: the value is read out of the old sentinel
TakeValueOfOldSentinel(hs, nx) == payload[hs].val

\* the value pop_internal reads: out of nx, the new sentinel, not out of the old one hs
TakeValue(hs, nx) == payload[nx].val

PopCasHead(t) ==
    /\ pc[t] = "pi_cas"
    /\ IF HeadCasOk(headS[t])
       THEN /\ head' = nextS[t]
            /\ deq' = Append(deq, TakeValue(headS[t], nextS[t]))
            /\ Return(t, Some(TakeValue(headS[t], nextS[t])),
                      DeferDestroy(DropOwned(mem, node[t]), guards, headS[t]))
            /\ UNCHANGED <<tail, next, payload, sigData, sigReady, token, plan>>
       ELSE \* Err(())
            /\ pc' = [pc EXCEPT ![t] =
                        IF Op(t) = "pop" /\ node[t] # Null THEN "po_tail" ELSE PopRetry]
            /\ UNCHANGED <<head, tail, next, payload, mem, guards, tailS, headS, nextS,
                           node, sig, sigData, sigReady, token, res, deq, plan,
                           cleanPushed, late>>
    /\ UNCHANGED <<emptySeen, clean, solo>>
    /\ UNCHANGED <<links, served, allocs, owner>>

----------------------------------------------------------------------------
(* push_internal(guard, onto = tailS[t], n = node[t]), called by push and pop *)

LinkLoadNext(t) ==
    /\ pc[t] = "li_next"
    /\ \E nx \in NextsAt(tailS[t]) :
          /\ nextS' = [nextS EXCEPT ![t] = nx]
          /\ pc' = [pc EXCEPT ![t] = IF nx # Null THEN "li_help" ELSE "li_cas"]
    /\ UNCHANGED <<head, tail, next, payload, mem, guards, tailS, headS, node,
                   sig, sigData, sigReady, token, res, deq, plan>>
    /\ UNCHANGED <<emptySeen, clean, solo, cleanPushed, late>>
    /\ UNCHANGED <<links, served, allocs, owner>>

\* self.tail.compare_and_set(from, to)
TailCas(from, to) == IF tail = from THEN to ELSE tail

\* `onto` is not the actual tail: help, and give the node back
LinkHelp(t) ==
    /\ pc[t] = "li_help"
    /\ tail' = TailCas(tailS[t], nextS[t])
    /\ pc' = [pc EXCEPT ![t] = IF Op(t) = "push" THEN PushRetry ELSE PopRetry]
    /\ UNCHANGED <<head, next, payload, mem, guards, tailS, headS, nextS, node,
                   sig, sigData, sigReady, token, res, deq, plan>>
    /\ UNCHANGED <<emptySeen, clean, solo, cleanPushed, late>>
    /\ UNCHANGED <<links, served, allocs, owner>>

\* next_atomic.compare_and_set(null, n) succeeds when it finds cur
LinkCasOk(cur) == cur = Null

LinkCas(t) ==
    /\ pc[t] = "li_cas"
    /\ \E cur \in NextsAt(tailS[t]) :
       IF LinkCasOk(cur)
       THEN /\ next' = [next EXCEPT ![tailS[t]] = node[t]]
            /\ links' = IF Op(t) = "pop" THEN Append(links, <<t, CallNo(t)>>) ELSE links
            /\ pc' = [pc EXCEPT ![t] = "li_adv"]
       ELSE /\ pc' = [pc EXCEPT ![t] = IF Op(t) = "push" THEN PushRetry ELSE PopRetry]
            /\ UNCHANGED <<next, links>>
    /\ UNCHANGED <<head, tail, payload, mem, guards, tailS, headS, nextS, node,
                   sig, sigData, sigReady, token, res, deq, plan>>
    /\ UNCHANGED <<emptySeen, clean, solo, cleanPushed, late>>
    /\ UNCHANGED <<served, allocs, owner>>

\* a faulty variant: pop keeps its guard while it waits
PopKeepGuard(m, g, t) == <<m, g>>

\* drop(guard) of pop, once its Blocked node is linked
PopDropGuard(m, g, t) == DropGuard(m, g, t)

\* the node is linked: try to move the tail forward; push returns, pop drops its guard
LinkAdvance(t) ==
    /\ pc[t] = "li_adv"
    /\ tail' = TailCas(tailS[t], node[t])
    /\ IF Op(t) = "push"
       THEN Return(t, Unit, <<mem, guards>>)
       ELSE /\ pc' = [pc EXCEPT ![t] = "wa_check"]
            /\ mem' = PopDropGuard(mem, guards, t)[1]
            /\ guards' = PopDropGuard(mem, guards, t)[2]
            /\ tailS' = [tailS EXCEPT ![t] = Null]
            /\ headS' = [headS EXCEPT ![t] = Null]
            /\ nextS' = [nextS EXCEPT ![t] = Null]
            /\ node' = [node EXCEPT ![t] = Null]
            /\ UNCHANGED <<sig, res, cleanPushed, late>>
    /\ UNCHANGED <<head, next, payload, sigData, sigReady, token, deq, plan>>
    /\ UNCHANGED <<emptySeen, clean, solo>>
    /\ UNCHANGED <<links, served, allocs, owner>>

----------------------------------------------------------------------------
(* push *)

PushLoadTail(t) ==
    /\ pc[t] = "pu_tail"
    /\ tailS' = [tailS EXCEPT ![t] = tail]
    /\ pc' = [pc EXCEPT ![t] = "pu_mode"]
    /\ UNCHANGED <<head, tail, next, payload, mem, guards, headS, nextS, node,
                   sig, sigData, sigReady, token, res, deq, plan>>
    /\ UNCHANGED <<emptySeen, clean, solo, cleanPushed, late>>
    /\ UNCHANGED <<links, served, allocs, owner>>

\* push takes the tail snapshot ts, a node of kind k, for a queue in Data mode
PushDataMode(ts, k) == k = "Data" \/ head = ts

\* a faulty variant: the node of an earlier round is not looked for
IsCacheNodeNever(t) == FALSE

\* the cache of the push call of thread t is Cache::Node: a node allocated in an
\* earlier round of the loop
IsCacheNode(t) == node[t] # Null

\* Data mode: cache.into_node() and on to push_internal; else the blocking branch
PushMode(t) ==
    /\ pc[t] = "pu_mode"
    /\ \E k \in KindsAt(tailS[t]) :
       IF PushDataMode(tailS[t], k)
       THEN /\ pc' = [pc EXCEPT ![t] = "li_next"]
            /\ IF IsCacheNode(t)
               THEN UNCHANGED <<node, payload, next, mem, allocs, owner>>
               ELSE \E a \in AllocSet :
                      /\ node' = [node EXCEPT ![t] = a]
                      /\ payload' = [payload EXCEPT ![a] = Data(Item(t))]
                      /\ next' = [next EXCEPT ![a] = Null]
                      /\ mem' = [mem EXCEPT ![a] = "live"]
                      /\ allocs' = [allocs EXCEPT ![t] = @ + 1]
                      /\ owner' = [owner EXCEPT ![a] = 0]
       ELSE /\ pc' = [pc EXCEPT ![t] = "pu_head"]
            /\ UNCHANGED <<node, payload, next, mem, allocs, owner>>
    /\ UNCHANGED <<head, tail, guards, tailS, headS, nextS,
                   sig, sigData, sigReady, token, res, deq, plan>>
    /\ UNCHANGED <<emptySeen, clean, solo, cleanPushed, late>>
    /\ UNCHANGED <<links, served>>

PushLoadHead(t) ==
    /\ pc[t] = "pu_head"
    /\ headS' = [headS EXCEPT ![t] = head]
    /\ pc' = [pc EXCEPT ![t] = "pu_next"]
    /\ UNCHANGED <<head, tail, next, payload, mem, guards, tailS, nextS, node,
                   sig, sigData, sigReady, token, res, deq, plan>>
    /\ UNCHANGED <<emptySeen, clean, solo, cleanPushed, late>>
    /\ UNCHANGED <<links, served, allocs, owner>>

\* the request push finds: head.next is nx, a Blocked node
SeesBlocked(nx, k) == nx # Null /\ k = "Blocked"

PushLoadNext(t) ==
    /\ pc[t] = "pu_next"
    /\ \E nx \in NextsAt(headS[t]) : \E k \in KindsOf(nx) :
       IF SeesBlocked(nx, k)
       THEN /\ nextS' = [nextS EXCEPT ![t] = nx]
            /\ sig' = [sig EXCEPT ![t] = payload[nx].val]
            /\ pc' = [pc EXCEPT ![t] = "pu_cas"]
       ELSE /\ pc' = [pc EXCEPT ![t] = PushRetry]
            /\ UNCHANGED <<nextS, sig>>
    /\ UNCHANGED <<head, tail, next, payload, mem, guards, tailS, headS, node,
                   sigData, sigReady, token, res, deq, plan>>
    /\ UNCHANGED <<emptySeen, clean, solo, cleanPushed, late>>
    /\ UNCHANGED <<links, served, allocs, owner>>

\* a faulty variant: the hand-off leaves the data slot empty
CacheDataNone(t) == 0

\* the value a push call holds: in its cached node, if it has one
CacheData(t) == IF node[t] # Null THEN payload[node[t]].val ELSE Item(t)

\* race to dequeue the Blocked node
PushCasHead(t) ==
    /\ pc[t] = "pu_cas"
    /\ IF HeadCasOk(headS[t])
       THEN /\ head' = nextS[t]
            /\ deq' = Append(deq, CacheData(t))
            /\ served' = Append(served, <<sig[t], owner[nextS[t]]>>)
            /\ pc' = [pc EXCEPT ![t] = "pu_data"]
       ELSE /\ pc' = [pc EXCEPT ![t] = PushRetry]
            /\ UNCHANGED <<head, deq, served>>
    /\ UNCHANGED <<tail, next, payload, mem, guards, tailS, headS, nextS, node,
                   sig, sigData, sigReady, token, res, plan>>
    /\ UNCHANGED <<emptySeen, clean, solo, cleanPushed, late>>
    /\ UNCHANGED <<links, allocs, owner>>

\* (*signal).data = Some(cache.into_data()); the cached node is deallocated
PushData(t) ==
    /\ pc[t] = "pu_data"
    /\ sigData' = [sigData EXCEPT ![sig[t]] = CacheData(t)]
    /\ mem' = DropOwned(mem, node[t])
    /\ node' = [node EXCEPT ![t] = Null]
    /\ pc' = [pc EXCEPT ![t] = "pu_ready"]
    /\ UNCHANGED <<head, tail, next, payload, guards, tailS, headS, nextS,
                   sig, sigReady, token, res, deq, plan>>
    /\ UNCHANGED <<emptySeen, clean, solo, cleanPushed, late>>
    /\ UNCHANGED <<links, served, allocs, owner>>

PushReady(t) ==
    /\ pc[t] = "pu_ready"
    /\ sigReady' = [sigReady EXCEPT ![sig[t]] = TRUE]
    /\ pc' = [pc EXCEPT ![t] = "pu_unpark"]
    /\ UNCHANGED <<head, tail, next, payload, mem, guards, tailS, headS, nextS, node,
                   sig, sigData, token, res, deq, plan>>
    /\ UNCHANGED <<emptySeen, clean, solo, cleanPushed, late>>
    /\ UNCHANGED <<links, served, allocs, owner>>

\* a faulty variant: no token is left
UnparkLost(tok, w) == tok

\* thread.unpark() leaves a token for the thread of waiter w
Unpark(tok, w) == [tok EXCEPT ![w] = TRUE]

\* thread.unpark(); guard.defer_destroy(head_shared); return
PushUnpark(t) ==
    /\ pc[t] = "pu_unpark"
    /\ token' = Unpark(token, sig[t])
    /\ Return(t, Unit, DeferDestroy(mem, guards, headS[t]))
    /\ UNCHANGED <<head, tail, next, payload, sigData, sigReady, deq, plan>>
    /\ UNCHANGED <<emptySeen, clean, solo>>
    /\ UNCHANGED <<links, served, allocs, owner>>

----------------------------------------------------------------------------
(* pop, after its fast path *)

PopLoadTail(t) ==
    /\ pc[t] = "po_tail"
    /\ tailS' = [tailS EXCEPT ![t] = tail]
    /\ pc' = [pc EXCEPT ![t] = "po_mode"]
    /\ UNCHANGED <<head, tail, next, payload, mem, guards, headS, nextS, node,
                   sig, sigData, sigReady, token, res, deq, plan>>
    /\ UNCHANGED <<emptySeen, clean, solo, cleanPushed, late>>
    /\ UNCHANGED <<links, served, allocs, owner>>

\* pop gives up linking onto the tail snapshot ts of kind k: a Data node that is
\* not the sentinel hs
PopAbort(ts, k, hs) == k = "Data" /\ ts # hs

PopMode(t) ==
    /\ pc[t] = "po_mode"
    /\ \E k \in KindsAt(tailS[t]) :
       IF k = "Data"
       THEN /\ headS' = [headS EXCEPT ![t] = head]
            /\ pc' = [pc EXCEPT ![t] =
                        IF PopAbort(tailS[t], k, head) THEN PopRetry ELSE "li_next"]
       ELSE /\ pc' = [pc EXCEPT ![t] = "li_next"]
            /\ UNCHANGED headS
    /\ UNCHANGED <<head, tail, next, payload, mem, guards, tailS, nextS, node,
                   sig, sigData, sigReady, token, res, deq, plan>>
    /\ UNCHANGED <<emptySeen, clean, solo, cleanPushed, late>>
    /\ UNCHANGED <<links, served, allocs, owner>>

\* signal.data.unwrap()
Unwrap(d) == IF d = 0 THEN [k |-> "Panic", v |-> 0] ELSE Some(d)

\* a faulty variant: the waiter is not asked whether the hand-off is complete
ReadyUnchecked(t) == TRUE

\* signal.ready.load(Acquire)
Ready(t) == sigReady[t]

\* while !signal.ready.load(Acquire)
WaitCheck(t) ==
    /\ pc[t] = "wa_check"
    /\ IF Ready(t)
       THEN /\ res' = [res EXCEPT ![t] = Append(@, Unwrap(sigData[t]))]
            /\ pc' = [pc EXCEPT ![t] = "idle"]
            /\ late' = [late EXCEPT ![t] = FALSE]
       ELSE /\ pc' = [pc EXCEPT ![t] = "wa_park"]
            /\ UNCHANGED <<res, late>>
    /\ UNCHANGED <<head, tail, next, payload, mem, guards, tailS, headS, nextS, node,
                   sig, sigData, sigReady, token, deq, plan>>
    /\ UNCHANGED <<emptySeen, clean, solo, cleanPushed>>
    /\ UNCHANGED <<links, served, allocs, owner>>

\* thread::park() returns, consuming the token an unpark has left
WaitPark(t) ==
    /\ pc[t] = "wa_park"
    /\ token[t]
    /\ token' = [token EXCEPT ![t] = FALSE]
    /\ pc' = [pc EXCEPT ![t] = "wa_check"]
    /\ UNCHANGED <<head, tail, next, payload, mem, guards, tailS, headS, nextS, node,
                   sig, sigData, sigReady, res, deq, plan>>
    /\ UNCHANGED <<emptySeen, clean, solo, cleanPushed, late>>
    /\ UNCHANGED <<links, served, allocs, owner>>

\* thread::park() returns with no unpark: a spurious wake-up, which may never happen
SpuriousWake(t) ==
    /\ pc[t] = "wa_park"
    /\ ~token[t]
    /\ pc' = [pc EXCEPT ![t] = "wa_check"]
    /\ UNCHANGED <<head, tail, next, payload, mem, guards, tailS, headS, nextS, node,
                   sig, sigData, sigReady, token, res, deq, plan>>
    /\ UNCHANGED <<emptySeen, clean, solo, cleanPushed, late>>
    /\ UNCHANGED <<links, served, allocs, owner>>

----------------------------------------------------------------------------
(* The specification *)

Step(t) ==
    \/ Invoke(t)
    \/ IsEmptyLoadHead(t)
    \/ IsEmptyLoadNext(t)
    \/ PopLoadHead(t)
    \/ PopLoadNext(t)
    \/ PopCasHead(t)
    \/ PopLoadTail(t)
    \/ PopMode(t)
    \/ LinkLoadNext(t)
    \/ LinkHelp(t)
    \/ LinkCas(t)
    \/ LinkAdvance(t)
    \/ PushLoadTail(t)
    \/ PushMode(t)
    \/ PushLoadHead(t)
    \/ PushLoadNext(t)
    \/ PushCasHead(t)
    \/ PushData(t)
    \/ PushReady(t)
    \/ PushUnpark(t)
    \/ WaitCheck(t)
    \/ WaitPark(t)

Next == \E t \in Threads : Step(t) \/ SpuriousWake(t)

----------------------------------------------------------------------------
(* The calls made: each specification runs the queue under a set of plans *)

MaxSeqOps == 4
NItems == 2

OpNames == {"push", "try_pop", "pop", "is_empty"}
Repeat(op, n) == [i \in 1..n |-> op]

\* one thread making any calls in any order
PlansSeq == {Plan(<<p>>) : p \in UNION {[1..n -> OpNames] : n \in 1..MaxSeqOps}}

\* push_pop_many_spsc: a producer pushing NItems values, a consumer popping them
PlanSPSC == Plan(<<Repeat("push", NItems), Repeat("pop", NItems) \o <<"is_empty">> >>)

\* producers and consumers mixing all four operations
PlansMixed ==
    { Plan(<< <<"push", "push">>, <<"try_pop", "pop">>, <<"push", "is_empty">> >>),
      Plan(<< <<"push">>, <<"try_pop", "push", "try_pop">> >>) }

Init == InitQueue /\ plan \in PlansSeq \cup {PlanSPSC} \cup PlansMixed

Spec == Init /\ [][Next]_vars

\* every thread keeps taking steps
PlansFair ==
    { PlanSPSC, Plan(<< <<"pop">>, <<"pop", "is_empty">>, <<"push">> >>) }

InitFair == InitQueue /\ plan \in PlansFair

SpecFair == InitFair /\ [][Next]_vars /\ \A t \in Threads : WF_vars(Step(t))

\* several pop calls wait at once
PlansWaiters ==
    { Plan(<< <<"pop", "pop">>, <<"pop">>, <<"push", "push">> >>),
      Plan(<< <<"is_empty">>, <<>>, <<"push">> >>) }

InitWaiters == InitQueue /\ plan \in PlansWaiters

SpecWaiters == InitWaiters /\ [][Next]_vars

\* one thread keeps taking steps, the others may stop anywhere
Runner == MaxThreads

PlansStall ==
    { Plan(<< <<"pop", "try_pop">>, <<"push">>, <<"push", "push">> >>),
      Plan(<< <<"is_empty">>, <<>>, <<"try_pop">> >>) }

InitStall == InitQueue /\ plan \in PlansStall

SpecStall == InitStall /\ [][Next]_vars /\ WF_vars(Step(Runner))

----------------------------------------------------------------------------
(* Contents and histories the properties speak of *)

\* the nodes reached from n by following `next`, n first (at most k of them)
RECURSIVE Chain(_, _)
Chain(n, k) == IF n = Null \/ k = 0 THEN <<>> ELSE <<n>> \o Chain(next[n], k - 1)

\* the non-sentinel nodes reachable from `head`
Linked == Tail(Chain(head, MaxNodes + 1))
\* the values held in Data nodes after the sentinel, oldest first
RECURSIVE DataOf(_)
DataOf(c) ==
    IF c = <<>> THEN <<>>
    ELSE (IF is_data(c[1]) THEN <<payload[c[1]].val>> ELSE <<>>) \o DataOf(Tail(c))
Held == DataOf(Linked)

\* the values returned by the try_pop and pop calls of thread t, in order
RECURSIVE SomeOf(_)
SomeOf(r) ==
    IF r = <<>> THEN <<>>
    ELSE (IF r[1].k = "Some" THEN <<r[1].v>> ELSE <<>>) \o SomeOf(Tail(r))
RECURSIVE Returned(_)
Returned(t) == IF t = 0 THEN <<>> ELSE Returned(t - 1) \o SomeOf(res[t])

\* the values of the push calls that have returned
PushedBy(t) == {Val(t, k) : k \in {j \in 1..Len(res[t]) : plan[t][j] = "push"}}
Pushed == UNION {PushedBy(t) : t \in Threads}

Count(q, v) == Cardinality({i \in 1..Len(q) : q[i] = v})
Range(q) == {q[i] : i \in 1..Len(q)}

AllReturned == \A t \in Threads : pc[t] = "idle" /\ Len(res[t]) = Len(plan[t])

\* C1: once all calls have returned, every value of a completed push was returned
\* exactly once or is still held in a Data node after the sentinel (and never both),
\* and nothing else was returned.
Conservation ==
    AllReturned =>
        \A v \in Pushed \cup Range(Returned(MaxThreads)) \cup Range(Held) :
            Count(Returned(MaxThreads), v) + Count(Held, v) = (IF v \in Pushed THEN 1 ELSE 0)

\* C10: the non-sentinel nodes reachable from `head` are all Data or all Blocked
ModeUniformity ==
    \A i, j \in 1..Len(Linked) : is_data(Linked[i]) = is_data(Linked[j])

\* the values thread t pushes in the course of its plan
PushValsOf(t) == {Val(t, k) : k \in {j \in 1..Len(plan[t]) : plan[t][j] = "push"}}
AllPushVals == UNION {PushValsOf(t) : t \in Threads}

\* a value is dequeued only after every value its producer pushed before it
DeqFIFO ==
    \A i \in 1..Len(deq) : \A a \in AllPushVals :
        (Producer(a) = Producer(deq[i]) /\ a < deq[i]) => \E j \in 1..(i - 1) : deq[j] = a

\* no consumer returns a value before a value the same producer pushed earlier
ConsumerFIFO ==
    \A t \in Threads : \A i, j \in 1..Len(SomeOf(res[t])) :
        (i < j /\ Producer(SomeOf(res[t])[i]) = Producer(SomeOf(res[t])[j]))
            => SomeOf(res[t])[i] < SomeOf(res[t])[j]

\* C2: values of one producer are dequeued, and returned to each consumer, in the
\* order in which that producer pushed them.
PerProducerFIFO == DeqFIFO /\ ConsumerFIFO

----------------------------------------------------------------------------
(* Reference FIFO for one thread *)

SingleThreaded == \A t \in Threads : t # 1 => plan[t] = <<>>

\* results of the first n calls of `ops` on a reference sequence; a pop on an
\* empty sequence never returns
RECURSIVE RefRun(_, _, _, _)
RefRun(ops, n, i, q) ==
    IF i > n THEN <<>>
    ELSE CASE ops[i] = "push" -> <<Unit>> \o RefRun(ops, n, i + 1, Append(q, Val(1, i)))
           [] ops[i] = "is_empty" -> <<Bool(q = <<>>)>> \o RefRun(ops, n, i + 1, q)
           [] ops[i] = "try_pop" /\ q = <<>> -> <<None>> \o RefRun(ops, n, i + 1, q)
           [] ops[i] = "pop" /\ q = <<>> -> <<[k |-> "Never", v |-> 0]>>
           [] OTHER -> <<Some(Head(q))>> \o RefRun(ops, n, i + 1, Tail(q))

\* C6: called from one thread, the queue answers as a reference FIFO sequence does
SeqFIFO == SingleThreaded => res[1] = RefRun(plan[1], Len(res[1]), 1, <<>>)

SeqFIFOWitness ==
    /\ SingleThreaded
    /\ plan[1] = <<"push", "push", "pop", "try_pop">>
    /\ res[1] = <<Unit, Unit, Some(Val(1, 1)), Some(Val(1, 2))>>

----------------------------------------------------------------------------
(* try_pop and is_empty *)

\* the last call thread t completed was a try_pop that returned None
TryPopNone(t) ==
    /\ pc[t] = "idle"
    /\ Len(res[t]) > 0
    /\ plan[t][Len(res[t])] = "try_pop"
    /\ res[t][Len(res[t])] = None

\* C7: a try_pop that begins when the value of a push no consumer call overlapped
\* is still undequeued, and that runs with no other consumer call in progress,
\* does not return None.
ProgressAfterPush == \A t \in Threads : TryPopNone(t) => ~solo[t]

\* thread t takes a step of a call of operation op
StepOf(t, op) == Op(t) = op /\ pc'[t] # pc[t]

\* C8: a try_pop that returns None loaded `head` at an instant when no Data node
\* followed the sentinel, and no step of a try_pop links a node or touches a waiter.
TryPopObservedEmpty ==
    /\ [](\A t \in Threads : TryPopNone(t) => emptySeen[t])
    /\ [][\A t \in Threads : StepOf(t, "try_pop") =>
            /\ next' = next /\ tail' = tail /\ payload' = payload
            /\ sigData' = sigData /\ sigReady' = sigReady /\ token' = token]_vars

\* a try_pop has returned None, and a value linked since is in the queue
TryPopObservedEmptyWitness ==
    \E t \in Threads : TryPopNone(t) /\ emptySeen[t] /\ Held # <<>>

\* C9: no step of is_empty changes head, tail, a node or a waiter, and the call
\* answers true iff the `next` of its head snapshot is null or a Blocked node.
IsEmptyDoesNotConsume ==
    [][\A t \in Threads : StepOf(t, "is_empty") =>
          /\ head' = head /\ tail' = tail /\ next' = next /\ payload' = payload
          /\ sigData' = sigData /\ sigReady' = sigReady /\ token' = token
          /\ deq' = deq
          /\ pc[t] = "ie_next" =>
               res'[t][Len(res'[t])] =
                  Bool(next[headS[t]] = Null \/ payload[next[headS[t]]].kind = "Blocked")]_vars

\* is_empty_dont_pop: is_empty has answered "not empty" twice, and try_pop still
\* returned the value
IsEmptyDoesNotConsumeWitness ==
    /\ SingleThreaded
    /\ plan[1] = <<"push", "is_empty", "is_empty", "try_pop">>
    /\ res[1] = <<Unit, Bool(FALSE), Bool(FALSE), Some(Val(1, 1))>>

----------------------------------------------------------------------------
(* Progress *)

\* the push, try_pop and pop calls that have returned
Completions ==
    Cardinality({<<t, i>> \in Threads \X (1..MaxSeqOps) :
                    i <= Len(res[t]) /\ plan[t][i] # "is_empty"})

\* thread t is inside a push or try_pop call
InLockFreeCall(t) == pc[t] # "idle" /\ Op(t) \in {"push", "try_pop"}

\* C3: while a thread keeps taking steps inside a push or try_pop call, some
\* push, try_pop or pop call completes, wherever the other threads are stalled.
LockFree ==
    \/ <>[](~InLockFreeCall(Runner))
    \/ []<><<Completions' > Completions>>_vars

\* the Blocked node of the pop call of c has been dequeued by a push call
Served(c) ==
    \/ sigReady[c]
    \/ \E p \in Threads : pc[p] \in {"pu_data", "pu_ready", "pu_unpark"} /\ sig[p] = c

BlockingSPSCOrder ==
    plan = PlanSPSC =>
       /\ [](\A k \in 1..Len(res[2]) : k <= NItems => res[2][k] = Some(Val(1, k)))
       /\ <>(Len(res[2]) = NItems + 1 /\ res[2][NItems + 1] = Bool(TRUE))

----------------------------------------------------------------------------
(* Reclamation *)

\* the nodes reachable from `head` or from `tail`
Reachable == Range(Chain(head, MaxNodes + 1)) \cup Range(Chain(tail, MaxNodes + 1))

\* node n is referenced by `head`, by `tail` or by the `next` of a reachable node
Referenced(n) == n = head \/ n = tail \/ \E m \in Reachable : next[m] = n

\* the tail snapshot thread t is about to dereference: tail_ref.is_data() in push
\* and pop, onto.next in push_internal
DerefsTail(t) == pc[t] \in {"pu_mode", "po_mode", "li_next", "li_cas"}
\* the head snapshot thread t is about to dereference: head.next
DerefsHead(t) == pc[t] \in {"ie_next", "pi_next", "pu_next"}

\* a node handed to defer_destroy is at that moment referenced neither by `head`,
\* nor by `tail`, nor by the `next` of a node reachable from them
RetiredUnreferenced ==
    \A n \in Nodes :
        (mem[n] = "live" /\ mem'[n] \in {"retired", "free"}) => ~Referenced(n)'

\* no call dereferences a tail or head snapshot that has been destroyed
NoUseAfterFree ==
    \A t \in Threads :
        /\ DerefsTail(t) => mem[tailS[t]] # "free"
        /\ DerefsHead(t) => mem[headS[t]] # "free"

\* C11: a node handed to defer_destroy is at that moment referenced neither by
\* `head`, nor by `tail`, nor by the `next` of a node reachable from them; hence
\* no call dereferences a node that has been destroyed.
ReclamationSafety == [][RetiredUnreferenced]_vars /\ []NoUseAfterFree

----------------------------------------------------------------------------
(* The tail *)

\* the list from `head`, sentinel first
HeadChain == Chain(head, MaxNodes + 1)

\* `head` is non-null, the list from `head` is acyclic, and `tail` is in it
TailReachable ==
    /\ head # Null
    /\ Len(HeadChain) <= MaxNodes
    /\ tail \in Range(HeadChain)

\* C12: in every state in which some call has just returned, `head` is non-null,
\* the list from `head` is acyclic and the node `tail` refers to is reachable
\* from the node `head` refers to.
TailReachability == [][res' # res => TailReachable']_vars

----------------------------------------------------------------------------
(* Waiters *)

\* the pop call <<thread, call>> thread t is in
PopCall(t) == <<t, CallNo(t)>>

\* push call p is between its head CAS onto a Blocked node and its store of ready:
\* it writes (*signal).data, reads (*signal).thread, stores (*signal).ready
AccessesWaiter(p) == pc[p] \in {"pu_data", "pu_ready"}

\* the waiter push call p holds belongs to a pop call that has linked the Blocked
\* node p dequeued and has not returned
WaiterLive(p) ==
    /\ sig[p] \in Threads
    /\ Op(sig[p]) = "pop"
    /\ pc[sig[p]] \in {"li_adv", "wa_check", "wa_park"}
    /\ owner[nextS[p]] = CallNo(sig[p])
    /\ PopCall(sig[p]) \in Range(links)

\* C13: a waiter is accessed only by the one push call that won the head CAS onto
\* its Blocked node, only while the pop call that owns it has not returned, and
\* not after that push call's store of ready; a pop call that has linked its
\* Blocked node does not return through the data path.
WaiterLifetime ==
    /\ [](\A p \in Threads : AccessesWaiter(p) =>
            /\ WaiterLive(p)
            /\ \A q \in Threads : (AccessesWaiter(q) /\ sig[q] = sig[p]) => q = p)
    /\ [][\A t \in Threads :
            /\ (sigData'[t] # sigData[t] \/ sigReady'[t] # sigReady[t]) =>
                 \/ \E p \in Threads : AccessesWaiter(p) /\ sig[p] = t /\ pc'[p] # pc[p]
                 \/ pc[t] = "pi_next" /\ pc'[t] = "pi_head"
            /\ (Len(res'[t]) > Len(res[t]) /\ Op(t) = "pop" /\ PopCall(t) \in Range(links))
                 => pc[t] = "wa_check"]_vars


\* the pop call of thread t has linked its Blocked node
HasLinked(t) == Op(t) = "pop" /\ PopCall(t) \in Range(links)

\* C14: a pop call that has linked its Blocked node returns only once ready is
\* true on its waiter; whenever ready is true the data slot holds the value of
\* one push, dequeued once; signal.data.unwrap() does not fail, and the pop call
\* returns the value in the data slot.
HandOffDelivery ==
    /\ [](\A c \in Threads : sigReady[c] =>
            sigData[c] \in AllPushVals /\ Count(deq, sigData[c]) = 1)
    /\ [](\A t \in Threads : \A i \in 1..Len(res[t]) : res[t][i].k # "Panic")
    /\ [][\A t \in Threads :
            (Len(res'[t]) > Len(res[t]) /\ HasLinked(t)) =>
                sigReady[t] /\ res'[t][Len(res'[t])] = Some(sigData[t])]_vars

\* a pop call has returned the value a push handed to its waiter
HandOffDeliveryWitness ==
    \E c \in Threads : \E i \in 1..Len(res[c]) :
        /\ <<c, i>> \in Range(served)
        /\ res[c][i] = Some(sigData[c])
        /\ sigData[c] \in AllPushVals

\* a push is about to store ready = true on the waiter of a parked pop call
WaiterLifetimeWitness ==
    \E p \in Threads :
        pc[p] = "pu_ready" /\ WaiterLive(p) /\ pc[sig[p]] = "wa_park"

----------------------------------------------------------------------------
(* The mode *)

\* the test of push and pop on the node at tail: Data mode
DataMode == is_data(tail) \/ head = tail

\* a Blocked node after the sentinel: a waiter no push has dequeued yet
WaiterQueued ==
    \E i \in 2..Len(HeadChain) : ~is_data(HeadChain[i])

ModeRule ==
    IF DataMode
    THEN ~WaiterQueued
    ELSE next[head] # Null /\ ~is_data(next[head])

\* tail is the last node of the list from head
TailIsLast == tail \in Range(HeadChain) /\ next[tail] = Null

\* C15: in every reachable state, if the node at tail is a Data node or
\* head = tail, no Blocked node is reachable after the sentinel; otherwise the
\* node at head.next exists and is a Blocked node.
ModeObservation == []ModeRule

\* C15, in the states it is weakest in: whenever tail is the last node of the
\* list from head (no link is waiting for its tail CAS), the rule of C15 holds.
ModeObservationSettled == [](TailIsLast => ModeRule)

----------------------------------------------------------------------------
(* The lag of tail *)

\* the node at tail is the last node or the one before the last
TailLag == next[tail] = Null \/ next[next[tail]] = Null

\* tail moves from a node to that node's next
TailStep == tail' # tail => tail' = next[tail]

\* a node is linked onto the node tail refers to
LinkOntoTail ==
    \A n \in Nodes : (next[n] = Null /\ next'[n] # Null) => n = tail

\* C16: in every reachable state the node at tail is the last node of the chain
\* or the immediate predecessor of the last; tail only moves from a node to that
\* node's next; a node is only linked onto the node tail refers to at the moment
\* of the linking CAS.
BoundedTailLag == []TailLag /\ [][TailStep /\ LinkOntoTail]_vars

----------------------------------------------------------------------------
(* The order of hand-offs *)

\* C17: pop calls are handed values in the order in which they linked their
\* Blocked nodes: the k-th head CAS of a hand-off is onto the Blocked node of the
\* k-th pop call to link, so the values they receive are linearised in that order.
ServedInLinkOrder ==
    /\ Len(served) <= Len(links)
    /\ \A i \in 1..Len(served) : i <= Len(links) => served[i] = links[i]

----------------------------------------------------------------------------
(* The unlink *)

\* thread t has won the head CAS of a hand-off and has yet to retire the old sentinel
HoldsOldSentinel(t) == pc[t] \in {"pu_data", "pu_ready", "pu_unpark"}

\* head moves to the next of the node it referred to, by the CAS of one thread,
\* which takes the value of the new sentinel or goes on to write its waiter
HeadStep ==
    head' # head =>
        /\ head' = next[head]
        /\ Len(deq') = Len(deq) + 1
        /\ \E t \in Threads :
            /\ pc[t] \in {"pi_cas", "pu_cas"}
            /\ headS[t] = head
            /\ pc'[t] \in {"idle", "pu_data"}
            /\ \A u \in Threads \ {t} : pc'[u] = pc[u] /\ res'[u] = res[u]

\* the old sentinel is retired by the winner alone, and once
RetiredOnce ==
    /\ mem[head] = "live"
    /\ \A t \in Threads : HoldsOldSentinel(t) =>
        /\ mem[headS[t]] = "live"
        /\ headS[t] # head
        /\ \A u \in Threads \ {t} : HoldsOldSentinel(u) => headS[u] # headS[t]

RetireStep ==
    \A n \in Nodes : (mem[n] # "retired" /\ mem'[n] = "retired") => mem[n] = "live"

\* no value is taken out of the list twice
ReadOnce == \A i, j \in 1..Len(deq) : deq[i] = deq[j] => i = j

----------------------------------------------------------------------------
(* Parking *)

\* no node waits for the guard of a pop call that parks or is about to park
NoParkedGuard == \A n \in Nodes : \A t \in guards[n] : ~Parked(t)

\* retired nodes wait for running calls only: with none running, all are destroyed
ParkedBlocksNothing ==
    /\ \A n \in Nodes : mem[n] = "retired" =>
            guards[n] # {} /\ \A t \in guards[n] : Pinned(t)
    /\ (\A t \in Threads : ~Pinned(t)) => \A n \in Nodes : mem[n] # "retired"

\* C19: a pop call drops its guard after its Blocked node is linked and before
\* its first park: no parked or about-to-park consumer holds a guard, and a
\* parked consumer does not keep a node retired by another thread from being
\* destroyed.
NoParkingWhilePinned ==
    /\ [](NoParkedGuard /\ ParkedBlocksNothing)
    /\ [][\A t \in Threads :
            (~Parked(t) /\ Parked(t)') =>
                /\ pc[t] = "li_adv"
                /\ HasLinked(t)
                /\ \A n \in Nodes : t \notin guards'[n]]_vars

\* a consumer is parked, not yet served, while a node another thread retired
\* waits for destruction, and not for the consumer
NoParkingWhilePinnedWitness ==
    \E c \in Threads :
        /\ pc[c] = "wa_park"
        /\ ~sigReady[c]
        /\ \E n \in Nodes : mem[n] = "retired" /\ c \notin guards[n]

----------------------------------------------------------------------------
(* The cache of push *)

\* the push call of thread p holds a node it has allocated and not linked
CachedNode(p) ==
    pc[p] \notin {"idle", "li_adv"} /\ Op(p) = "push" /\ node[p] # Null

\* node n is in the list: the sentinel or the target of a next pointer after it
IsLinked(n) == n \in Range(HeadChain)

AllocOnce == \A t \in Threads : (pc[t] # "idle" /\ Op(t) = "push") => allocs[t] <= 1

CacheKept ==
    \A p \in Threads : CachedNode(p) =>
        /\ payload[node[p]] = Data(Item(p))
        /\ ~IsLinked(node[p])

\* the hand-off writes the value passed to push and frees the cached node
CacheStep ==
    \A p \in Threads :
        (pc[p] = "pu_data" /\ pc'[p] # pc[p]) =>
            /\ sigData'[sig[p]] = Item(p)
            /\ node[p] # Null => mem'[node[p]] = "free" /\ ~IsLinked(node[p])

\* C20: a push call allocates at most one node however often its loop retries;
\* when it ends by hand-off after a node was cached, the value written into the
\* waiter is the value passed to push, and the cached node is freed without
\* having been linked into the list.
AllocationCaching == [](AllocOnce /\ CacheKept) /\ [][CacheStep]_vars

\* a push call that allocated a node in an earlier round ends by hand-off
AllocationCachingWitness ==
    \E p \in Threads :
        /\ pc[p] = "pu_data"
        /\ CachedNode(p)
        /\ allocs[p] = 1
        /\ mem[node[p]] = "live"

====
